---- MODULE Spec2Model ----
(***************************************************************************)
(* Model of the link crawler: the intake loop `listen`, the bounded        *)
(* traversal `crawl_urls`, the link extractor `crawl`, the store insert    *)
(* `insert_unique_urls` (src/src/crawler.rs) and the HTTP handlers `list`, *)
(* `count` and `crawl` (src/src/routes.rs).                                *)
(*                                                                         *)
(* Strings are records [t, host, n, lead]:                                 *)
(*   t = "abs"    text of an absolute URL with a host, "http://<host><path>"*)
(*   t = "nohost" text of an absolute URL without a host ("mailto:x")      *)
(*   t = "rel"    text that Url::parse rejects (a relative reference)      *)
(* The path is the page number n, written with a leading slash (lead) or   *)
(* without: n = 0 is "/" or "", n = 3 is "/3" or "3".                      *)
(***************************************************************************)
EXTENDS Integers, Sequences, FiniteSets, TLC

\* ------------------------------------------------------------------ bounds
\* How many messages the HTTP clients submit in one behaviour.
MaxSubmits == 2
\* Number of pages of the deep site a.com (pages 0 .. NumPages - 1).
NumPages == 18

\* ------------------------------------------------------- program constants
MAX_LINKS_CRAWLED_PER_REQUEST == 16

\* ---------------------------------------------------------------- strings
Str(t, h, n, lead) == [t |-> t, host |-> h, n |-> n, lead |-> lead]
Abs(h, n)     == Str("abs", h, n, TRUE)
AbsBare(h)    == Str("abs", h, 0, FALSE)
Rel(n, lead)  == Str("rel", "", n, lead)
NoHostStr     == Str("nohost", "", 0, FALSE)
\* An anchor element without an href attribute.
NoHref        == Str("none", "", 0, FALSE)

\* The url crate lower-cases the host of a special-scheme URL.
Lower(h) == CASE h = "A.com" -> "a.com"
              [] h = "B.com" -> "b.com"
              [] OTHER       -> h

\* Url::parse: Ok(url) for an absolute URL text, Err for anything else. The
\* parsed URL has its host lower-cased and an empty path replaced by "/".
UrlParse(s) ==
  CASE s.t = "abs"    -> [ok |-> TRUE,  hasHost |-> TRUE,  host |-> Lower(s.host), n |-> s.n]
    [] s.t = "nohost" -> [ok |-> TRUE,  hasHost |-> FALSE, host |-> "",            n |-> 0]
    [] OTHER          -> [ok |-> FALSE, hasHost |-> FALSE, host |-> "",            n |-> 0]

\* Url::as_str of a parsed URL: the serialisation, always with a rooted path.
AsStr(u) == IF u.hasHost THEN Abs(u.host, u.n) ELSE NoHostStr

\* Url::set_path(link): replaces the path, rooted whether or not the link is.
SetPath(u, link) == [u EXCEPT !.n = link.n]

\* ------------------------------------------------------------------- web
\* What a GET of a URL can produce: "fail" (transport error, non-success
\* status, unreadable body) or a document, given as the sequence of its
\* anchors' href values in document order.
Failed   == [ok |-> FALSE, anchors |-> <<>>]
Doc(seq) == [ok |-> TRUE, anchors |-> seq]

\* a.com: a chain of NumPages pages, page n linking to page n + 1; the root
\* page may fail.
SiteA(n) ==
  (IF n = 0 THEN {Failed} ELSE {})
  \cup (IF n + 1 < NumPages THEN {Doc(<<Abs("a.com", n + 1)>>)} ELSE {Doc(<<>>)})

\* b.com: four pages, with duplicate, foreign, relative, host-less and missing
\* hrefs; pages 0 and 2 may fail.
SiteB(n) ==
  CASE n = 0 -> {Failed,
                 Doc(<<Abs("b.com", 1), Abs("b.com", 1), Abs("c.com", 0)>>),
                 Doc(<<NoHref, NoHostStr>>)}
    [] n = 1 -> {Doc(<<>>), Doc(<<Rel(2, FALSE), Abs("B.com", 3)>>)}
    [] n = 2 -> {Failed, Doc(<<Abs("a.com", 0)>>)}
    [] OTHER -> {Doc(<<Rel(0, TRUE)>>)}

Web(url) ==
  CASE url.host = "a.com" -> SiteA(url.n)
    [] url.host = "b.com" -> SiteB(url.n)
    [] OTHER              -> {Failed}

\* Messages the HTTP clients submit: "http://a.com", "http://B.com/", a
\* relative reference and a URL without a host.
Messages == {AbsBare("a.com"), Abs("B.com", 0), Rel(1, TRUE), NoHostStr}

\* Domains the HTTP clients query.
Domains == {"a.com", "b.com", "c.com"}

\* ------------------------------------------------------------ link extractor
None       == [some |-> FALSE, urls |-> {}]
Some(urls) == [some |-> TRUE, urls |-> urls]

\* Variant: links are not filtered by host.
HostDiffersNever(h, link_parsed) == FALSE

\* crawler.rs 88: the link's host is not the crawled host.
HostDiffers(h, link_parsed) == h # link_parsed.host

\* crawler.rs 80-103: the filter_map over the anchors in document order;
\* url_parsed is the URL of the page, whose path each relative href replaces.
RECURSIVE Extract(_, _, _, _, _)
Extract(h, anchors, i, url_parsed, acc) ==
  IF i > Len(anchors) THEN acc
  ELSE LET link == anchors[i]
           link_parsed == UrlParse(link)
       IN IF link = NoHref
            THEN Extract(h, anchors, i + 1, url_parsed, acc)
          ELSE IF link_parsed.ok
            THEN IF ~link_parsed.hasHost \/ HostDiffers(h, link_parsed)
                   THEN Extract(h, anchors, i + 1, url_parsed, acc)
                   ELSE Extract(h, anchors, i + 1, url_parsed,
                                acc \cup {AsStr(link_parsed)})
          ELSE LET moved == SetPath(url_parsed, link)
               IN Extract(h, anchors, i + 1, moved, acc \cup {AsStr(moved)})

\* Variant: the crawled URL itself is not added to the result.
CrawlNoSelf(h, url, out) ==
  IF ~out.ok \/ ~UrlParse(url).ok THEN None
  ELSE Some(Extract(h, out.anchors, 1, UrlParse(url), {}))

\* Variant: a failed fetch still yields the crawled URL as the only result.
CrawlSelfOnFailure(h, url, out) ==
  IF ~out.ok \/ ~UrlParse(url).ok THEN Some({url})
  ELSE Some(Extract(h, out.anchors, 1, UrlParse(url), {}) \cup {url})

\* crawler.rs 65-108: crawl(host, url) on the outcome `out` of the GET.
Crawl(h, url, out) ==
  IF ~out.ok \/ ~UrlParse(url).ok THEN None
  ELSE Some(Extract(h, out.anchors, 1, UrlParse(url), {}) \cup {url})

\* ------------------------------------------------------------------ store
EmptyDb == [h \in {} |-> {}]

\* map.get(domain)
HasKey(db, h) == h \in DOMAIN db
Get(db, h)    == IF HasKey(db, h) THEN db[h] ELSE {}

\* Variant: an unknown domain is answered with the number of known domains.
CountOfEntries(db, domain) ==
  IF domain \in DOMAIN db THEN Cardinality(db[domain]) ELSE Cardinality(DOMAIN db)

\* routes.rs 15-19 and 32-35: what list and count answer from the map.
ListOf(db, domain)  == IF HasKey(db, domain) THEN db[domain] ELSE {}
CountOf(db, domain) == IF HasKey(db, domain) THEN Cardinality(db[domain]) ELSE 0

\* map.insert(host, set)
Put(db, h, set) == [k \in DOMAIN db \cup {h} |-> IF k = h THEN set ELSE db[k]]

\* Variant: the lookup creates an empty set for a domain it does not find.
AfterGetOrInsert(db, domain) == IF HasKey(db, domain) THEN db ELSE Put(db, domain, {})

\* routes.rs 15, 32: db.get(&domain) borrows the map and leaves it as it is.
AfterGet(db, domain) == db

\* The orders in which a HashSet can enumerate its elements.
Orders(S) == {f \in [1..Cardinality(S) -> S] : \A i, j \in DOMAIN f : f[i] = f[j] => i = j}

Range(f) == {f[i] : i \in DOMAIN f}

NoInsert == [host |-> "", cands |-> {}, ret |-> <<>>, before |-> {}, after |-> {}]

\* ------------------------------------------------------------------ state
VARIABLES
  chan,       \* mpsc channel: messages sent and not yet received
  pc,         \* position of the crawler thread
  host,       \* crawl_urls: host
  counter,    \* crawl_urls: counter
  queue,      \* crawl_urls: queue (the frontier, a Vec used as a stack)
  crawled,    \* insert_unique_urls: crawled_urls (what is left to drain)
  unique,     \* insert_unique_urls: unique_urls
  store,      \* Database: HashMap<String, HashSet<String>>
  lock,       \* the Mutex around the Database: "free" or "crawler"
  resp,       \* the response of the list/count handler that ran in the last step
  sent,       \* history: every message accepted by the submit handler
  nrecv,      \* history: how many messages the intake loop has received
  started,    \* history: the messages whose traversal was started, in order
  visited,    \* history: the fetches of the request in progress, in order
  cands,      \* history: the argument crawled_urls of the insert call in progress
  prevIns,    \* history: the previous completed insert call
  committed,  \* history: the store as the last completed insert call left it
  serving,    \* the HTTP server is up and holds the channel's only Sender
  known       \* history: the host's set in the store when the request started

vars == <<chan, pc, host, counter, queue, crawled, unique, store, lock, resp,
          sent, nrecv, started, visited, cands, prevIns, committed, serving,
          known>>

crawlerVars == <<pc, host, counter, queue, crawled, unique>>
histVars    == <<started, visited, cands, prevIns, known>>

NoResp == [op |-> "none", domain |-> "", status |-> 0, count |-> 0, urls |-> {}]

Init ==
  /\ chan = <<>>
  /\ pc = "recv"
  /\ host = ""
  /\ counter = 0
  /\ queue = <<>>
  /\ crawled = {}
  /\ unique = <<>>
  /\ store = EmptyDb
  /\ lock = "free"
  /\ resp = NoResp
  /\ sent = <<>>
  /\ nrecv = 0
  /\ started = <<>>
  /\ visited = <<>>
  /\ cands = {}
  /\ prevIns = NoInsert
  /\ committed = EmptyDb
  /\ serving = TRUE
  /\ known = {}

\* ------------------------------------------------------------ HTTP handlers
\* Variant: the handlers read the map without taking the mutex.
LockFreeUnchecked == TRUE

\* cache.lock(): the handler gets the mutex when no other thread holds it.
LockFree == lock = "free"

\* routes.rs 9-25
list(domain) ==
  /\ serving
  /\ LockFree
  /\ resp' = [op |-> "list", domain |-> domain, status |-> 200, count |-> 0,
              urls |-> ListOf(store, domain)]
  /\ store' = AfterGet(store, domain)
  /\ UNCHANGED <<chan, crawlerVars, lock, sent, serving, nrecv, histVars, committed>>

\* routes.rs 27-41
count(domain) ==
  /\ serving
  /\ LockFree
  /\ resp' = [op |-> "count", domain |-> domain, status |-> 200,
              count |-> CountOf(store, domain), urls |-> {}]
  /\ store' = AfterGet(store, domain)
  /\ UNCHANGED <<chan, crawlerVars, lock, sent, serving, nrecv, histVars, committed>>

\* Variant: a rendezvous channel, where send waits for the receiver.
SendRendezvous == pc = "recv"

\* routes.rs 48: send on an mpsc::Sender puts the message in the channel's
\* buffer and returns; it waits for nothing.
SendReady == TRUE

\* The Receiver is owned by the crawler thread and dropped when that ends.
ReceiverGone == pc \in {"panic", "done"}

Answer(op, status) ==
  [op |-> op, domain |-> "", status |-> status, count |-> 0, urls |-> {}]

\* routes.rs 43-55: producer.send(req.url.clone()); Accepted when the send
\* succeeded, ServiceUnavailable when the Receiver is gone.
Submit(url) ==
  /\ serving
  /\ Len(sent) < MaxSubmits
  /\ SendReady
  /\ IF ReceiverGone
       THEN /\ resp' = Answer("crawl", 503)
            /\ UNCHANGED <<chan, sent>>
       ELSE /\ chan' = Append(chan, url)
            /\ sent' = Append(sent, url)
            /\ resp' = Answer("crawl", 202)
  /\ UNCHANGED <<crawlerVars, store, lock, nrecv, histVars, committed, serving>>

\* The server stops: its managed state, the Sender in it, is dropped and no
\* handler runs any more. Messages already sent stay in the channel.
Shutdown ==
  /\ serving
  /\ serving' = FALSE
  /\ resp' = NoResp
  /\ UNCHANGED <<chan, crawlerVars, store, lock, sent, nrecv, histVars, committed>>

\* ------------------------------------------------------------- intake loop
\* Variant: the has_host filter is missing.
AcceptedAnyUrl(message) == UrlParse(message).ok

\* crawler.rs 28: Url::parse(..).ok().filter(|url| url.has_host())
Accepted(message) == UrlParse(message).ok /\ UrlParse(message).hasHost

\* Variant: the newest message is taken first.
RecvNewest(c) == Len(c)

\* consumer.recv(): the oldest message of the channel
RecvIndex(c) == 1

Without(c, i) == SubSeq(c, 1, i - 1) \o SubSeq(c, i + 1, Len(c))

\* crawler.rs 17-19: consumer.recv() is an Err when the channel is empty and
\* its Sender is gone.
RecvError ==
  /\ pc = "recv"
  /\ chan = <<>>
  /\ ~serving
  /\ pc' = "err"
  /\ resp' = NoResp
  /\ UNCHANGED <<chan, host, counter, queue, crawled, unique, store, lock, sent,
                 serving, nrecv, histVars, committed>>

\* Variant: the loop is left after a receive error.
RecvErrorBreak ==
  /\ pc = "err"
  /\ pc' = "done"
  /\ resp' = NoResp
  /\ UNCHANGED <<chan, host, counter, queue, crawled, unique, store, lock, sent,
                 serving, nrecv, histVars, committed>>

\* crawler.rs 20-24: the error is printed and the loop continues at recv.
RecvErrorContinue ==
  /\ pc = "err"
  /\ pc' = "recv"
  /\ resp' = NoResp
  /\ UNCHANGED <<chan, host, counter, queue, crawled, unique, store, lock, sent,
                 serving, nrecv, histVars, committed>>

\* Variant: a message that is no URL with a host ends the loop.
RecvDiscardBreak ==
  /\ pc = "recv"
  /\ chan # <<>>
  /\ ~Accepted(chan[RecvIndex(chan)])
  /\ chan' = Without(chan, RecvIndex(chan))
  /\ nrecv' = nrecv + 1
  /\ pc' = "done"
  /\ resp' = NoResp
  /\ UNCHANGED <<host, counter, queue, crawled, unique, store, lock, sent, serving,
                 histVars, committed>>

\* crawler.rs 17, 28, 33: a message that is no URL with a host is dropped.
RecvDiscard ==
  /\ pc = "recv"
  /\ chan # <<>>
  /\ ~Accepted(chan[RecvIndex(chan)])
  /\ chan' = Without(chan, RecvIndex(chan))
  /\ nrecv' = nrecv + 1
  /\ resp' = NoResp
  /\ UNCHANGED <<crawlerVars, store, lock, sent, serving, histVars, committed>>

\* Variant: the traversal also resumes from a URL the store already holds
\* for the host.
InitialQueueResume(db, url) ==
  LET rest == Get(db, url.host) \ {AsStr(url)}
  IN IF rest = {} THEN <<AsStr(url)>> ELSE <<CHOOSE u \in rest : TRUE, AsStr(url)>>

\* crawler.rs 43: let mut queue: Vec<String> = vec!(url);
InitialQueue(db, url) == <<AsStr(url)>>

\* crawler.rs 17, 28-32, 42-43: a URL with a host enters crawl_urls.
RecvStart ==
  /\ pc = "recv"
  /\ chan # <<>>
  /\ Accepted(chan[RecvIndex(chan)])
  /\ LET message == chan[RecvIndex(chan)]
         url == UrlParse(message)
     IN /\ host' = url.host
        /\ queue' = InitialQueue(store, url)
        /\ started' = Append(started, message)
        /\ known' = Get(store, url.host)
  /\ chan' = Without(chan, RecvIndex(chan))
  /\ nrecv' = nrecv + 1
  /\ counter' = 0
  /\ pc' = "loop"
  /\ visited' = <<>>
  /\ resp' = NoResp
  /\ UNCHANGED <<crawled, unique, store, lock, sent, serving, cands, prevIns, committed>>

\* ---------------------------------------------------------------- traversal
\* Variant: the ceiling is not tested.
ExhaustedNoCeiling(q, c) == Len(q) = 0
\* Variant: both conditions are required to leave the loop.
ExhaustedBoth(q, c) == Len(q) = 0 /\ c > MAX_LINKS_CRAWLED_PER_REQUEST

\* crawler.rs 48: the loop's exit condition, on the incremented counter.
Exhausted(q, c) == Len(q) = 0 \/ c > MAX_LINKS_CRAWLED_PER_REQUEST

\* crawler.rs 46-50, 61, 31-35: counter += 1; break; crawl_urls returns, its
\* locals are gone, and listen is back at its receive.
LoopBreak ==
  /\ pc = "loop"
  /\ Exhausted(queue, counter + 1)
  /\ counter' = 0
  /\ queue' = <<>>
  /\ host' = ""
  /\ visited' = <<>>
  /\ known' = {}
  /\ pc' = "recv"
  /\ resp' = NoResp
  /\ UNCHANGED <<chan, crawled, unique, store, lock, sent, serving, nrecv, started, cands,
                 prevIns, committed>>

\* Variant: the oldest entry is taken, as from a FIFO queue.
PopOldest(q) == 1

\* crawler.rs 53: Vec::pop takes the last element, the one pushed last.
PopIndex(q) == Len(q)

\* What a fetch leaves in the history: the URL, the outcome of the GET, how
\* many entries stayed on the frontier underneath, and (filled in when the
\* insert call returns) the URLs pushed for this page.
FetchRecord(url, out, below) ==
  [url |-> url, out |-> out, below |-> below, pushed |-> {}]

\* crawler.rs 55-57: the history's last fetch gets the URLs the insert reported.
WithPushed(v, ret) == [v EXCEPT ![Len(v)].pushed = Range(ret)]

\* crawler.rs 46-53, 65-108: counter += 1; queue.pop().unwrap(); crawl(host, url).
\* The unwrap of a pop from an empty queue panics and ends the thread.
Visit ==
  /\ pc = "loop"
  /\ ~Exhausted(queue, counter + 1)
  /\ counter' = counter + 1
  /\ IF queue = <<>>
       THEN /\ pc' = "panic"
            /\ UNCHANGED <<queue, visited, crawled, cands>>
       ELSE LET url == queue[PopIndex(queue)]
            IN /\ queue' = Without(queue, PopIndex(queue))
               /\ \E out \in Web(url) :
                    LET crawled_urls == Crawl(host, url, out)
                    IN /\ visited' = Append(visited, FetchRecord(url, out, Len(queue')))
                       /\ IF crawled_urls.some
                            THEN /\ pc' = "insert"
                                 /\ crawled' = crawled_urls.urls
                                 /\ cands' = crawled_urls.urls
                            ELSE /\ pc' = "loop"
                                 /\ UNCHANGED <<crawled, cands>>
  /\ resp' = NoResp
  /\ UNCHANGED <<chan, host, unique, store, lock, sent, serving, nrecv, started, known, prevIns,
                 committed>>

\* ------------------------------------------------------- insert_unique_urls
\* crawler.rs 114-120, 134: master.lock(); map.get_mut(host)
InsertLock ==
  /\ pc = "insert"
  /\ lock = "free"
  /\ lock' = "crawler"
  /\ unique' = <<>>
  /\ pc' = IF HasKey(store, host) THEN "drain" ELSE "fresh"
  /\ resp' = NoResp
  /\ UNCHANGED <<chan, host, counter, queue, crawled, store, sent, serving, nrecv,
                 histVars, committed>>

\* Variant: every drained URL is reported as new.
IsNewAlways(set, url) == TRUE
\* Variant: the drained URL is not added to the set.
InsertedNot(set, url) == set

\* crawler.rs 126: HashSet::insert reports whether the value was absent,
\* and leaves the set with the value in it.
IsNew(set, url)    == url \notin set
Inserted(set, url) == set \cup {url}

\* crawler.rs 125-129: one turn of the drain loop
DrainOne ==
  /\ pc = "drain"
  /\ \E url \in crawled :
       /\ crawled' = crawled \ {url}
       /\ unique' = IF IsNew(store[host], url) THEN Append(unique, url) ELSE unique
       /\ store' = [store EXCEPT ![host] = Inserted(@, url)]
  /\ resp' = NoResp
  /\ UNCHANGED <<chan, pc, host, counter, queue, lock, sent, serving, nrecv,
                 histVars, committed>>

\* What a completed insert call leaves in the history.
Completed(ret, db) ==
  [host |-> host, cands |-> cands, ret |-> ret,
   before |-> Get(committed, host), after |-> Get(db, host)]

\* crawler.rs 131, 144, 55-57: return unique_urls; the guard drops; queue.append
DrainReturn ==
  /\ pc = "drain"
  /\ crawled = {}
  /\ queue' = queue \o unique
  /\ unique' = <<>>
  /\ lock' = "free"
  /\ pc' = "loop"
  /\ committed' = store
  /\ prevIns' = Completed(unique, store)
  /\ resp' = NoResp
  /\ cands' = {}
  /\ visited' = WithPushed(visited, unique)
  /\ UNCHANGED <<chan, host, counter, crawled, store, sent, serving, nrecv, started, known>>

\* crawler.rs 134-142, 144, 55-57: the host's first set
FreshInsert ==
  /\ pc = "fresh"
  /\ \E items \in Orders(crawled) :
       /\ store' = Put(store, host, crawled)
       /\ queue' = queue \o items
       /\ prevIns' = Completed(items, store')
       /\ visited' = WithPushed(visited, items)
  /\ crawled' = {}
  /\ lock' = "free"
  /\ pc' = "loop"
  /\ committed' = store'
  /\ resp' = NoResp
  /\ cands' = {}
  /\ UNCHANGED <<chan, host, counter, unique, sent, serving, nrecv, started, known>>

Next ==
  \/ \E url \in Messages : Submit(url)
  \/ \E domain \in Domains : list(domain)
  \/ \E domain \in Domains : count(domain)
  \/ Shutdown
  \/ RecvError
  \/ RecvErrorContinue
  \/ RecvDiscard
  \/ RecvStart
  \/ LoopBreak
  \/ Visit
  \/ InsertLock
  \/ DrainOne
  \/ DrainReturn
  \/ FreshInsert

Spec == Init /\ [][Next]_vars

\* The crawler thread: the intake loop and everything it calls.
CrawlerStep ==
  \/ RecvError \/ RecvErrorContinue
  \/ RecvDiscard \/ RecvStart \/ LoopBreak \/ Visit
  \/ InsertLock \/ DrainOne \/ DrainReturn \/ FreshInsert

\* The crawler runs on a thread of its own, and every fetch returns.
FairSpec == Spec /\ WF_vars(CrawlerStep)

\* ------------------------------------------------------------------ claims
Traversing == pc \in {"loop", "insert", "drain", "fresh"}

\* C1: one request makes at most 16 fetch attempts.
C1_AtMostSixteenFetches == Len(visited) <= 16

\* C1 witness: a request stopped by the ceiling after 16 fetches, with URLs
\* still waiting on the frontier.
C1_Witness ==
  /\ pc = "loop"
  /\ Len(visited) = 16
  /\ Len(queue) > 0
  /\ Exhausted(queue, counter + 1)

\* C2: no traversal runs forever: at every point of every behaviour the
\* crawler is later at the exit of crawl_urls, back at the receive of listen.
C2_TraversalTerminates == []<>(pc = "recv")

\* C2 witness: a traversal about to leave by the counter, 16 pages visited and
\* each of the last 15 fetches having put a new link on the frontier.
C2_Witness ==
  /\ pc = "loop"
  /\ counter = MAX_LINKS_CRAWLED_PER_REQUEST
  /\ queue # <<>>
  /\ \A i \in 2..Len(visited) : visited[i].out.ok /\ visited[i].out.anchors # <<>>
  /\ Len(visited) = MAX_LINKS_CRAWLED_PER_REQUEST

\* C3: a completed insert call returned exactly the candidates that were not
\* in the host's set before the call, each once, and left the host's set
\* equal to the old set united with the candidates.
C3_InsertReturnsExactlyNew ==
  prevIns # NoInsert =>
    /\ Range(prevIns.ret) = prevIns.cands \ prevIns.before
    /\ Len(prevIns.ret) = Cardinality(Range(prevIns.ret))
    /\ prevIns.after = prevIns.before \cup prevIns.cands
    /\ lock = "free" => Get(store, prevIns.host) = prevIns.after

\* C3 witness: a call on a host with an entry, with known and new candidates.
C3_Witness ==
  /\ prevIns # NoInsert
  /\ prevIns.before # {}
  /\ prevIns.cands \cap prevIns.before # {}
  /\ Len(prevIns.ret) = 2

\* C4: when an insert call for a host follows a call for the same host, no
\* candidate of the earlier call is reported new again; with the same
\* candidates the later call returns nothing and leaves the store as it was,
\* so over the two calls the count grows by what the first call reported.
C4_InsertIdempotent ==
  [][(prevIns' # prevIns /\ prevIns'.host = prevIns.host) =>
       /\ Range(prevIns'.ret) \cap prevIns.cands = {}
       /\ prevIns'.cands = prevIns.cands =>
            /\ prevIns'.ret = <<>>
            /\ store' = committed
            /\ Cardinality(Get(store', prevIns.host))
                 = Cardinality(prevIns.before) + Len(prevIns.ret)]_vars

\* C4 witness: the same single URL inserted twice in a row, new the first
\* time; the count has grown by one.
C4_Witness ==
  /\ pc = "loop"
  /\ Len(started) = 1
  /\ Len(visited) = 2
  /\ visited[1].url = visited[2].url
  /\ Cardinality(prevIns.cands) = 1
  /\ prevIns.before = prevIns.cands
  /\ prevIns.host = host
  /\ prevIns.ret = <<>>
  /\ CountOf(store, host) = 1

\* C5: every URL stored under a hostname is a URL of exactly that hostname.
C5_HostnameIsolation ==
  \A h \in DOMAIN store : \A u \in store[h] :
      UrlParse(u).ok /\ UrlParse(u).hasHost /\ UrlParse(u).host = h

Foreign(h, link) == UrlParse(link).ok /\ UrlParse(link).hasHost /\ UrlParse(link).host # h

\* C5 witness: the links of a page with a link to another hostname have been
\* inserted.
C5_Witness ==
  /\ pc = "loop"
  /\ visited # <<>>
  /\ LET last == visited[Len(visited)]
     IN /\ last.out.ok
        /\ \E i \in DOMAIN last.out.anchors : Foreign(host, last.out.anchors[i])
        /\ prevIns.host = host
        /\ prevIns.cands = Crawl(host, last.url, last.out).urls
        /\ HasKey(store, host)


\* C6: a list or count response is the host's set as the last completed insert
\* call left it, read while the crawler is outside insert_unique_urls; and the
\* sets those responses are read from never lose a URL, so successive counts
\* never decrease.
C6_ReadIsCommitted ==
  /\ resp.op = "count" => resp.count = CountOf(committed, resp.domain)
  /\ resp.op = "list" => resp.urls = ListOf(committed, resp.domain)
  /\ resp.op \in {"list", "count"} => lock = "free" /\ pc \notin {"drain", "fresh"}

C6_AtomicMonotoneReads ==
  /\ []C6_ReadIsCommitted
  /\ [][\A d \in Domains :
          /\ ListOf(committed, d) \subseteq ListOf(committed', d)
          /\ CountOf(committed, d) <= CountOf(committed', d)]_vars

\* C6 witness: a count of the host being crawled, answered between two insert
\* calls of the traversal.
C6_Witness ==
  /\ resp.op = "count"
  /\ resp.domain = host
  /\ pc = "insert"
  /\ prevIns.host = host
  /\ resp.count >= 2
  /\ cands \ store[host] # {}

\* The hostnames of the URLs submitted so far.
SubmittedHosts ==
  {UrlParse(sent[i]).host : i \in {j \in DOMAIN sent : UrlParse(sent[j]).hasHost}}

\* C7: a hostname that was never the hostname of a submitted URL has no URLs:
\* list answers the empty list and count answers 0.
C7_UnseenHostEmpty ==
  \A d \in Domains : d \notin SubmittedHosts =>
      /\ ListOf(store, d) = {}
      /\ CountOf(store, d) = 0
      /\ resp.domain = d => resp.count = 0 /\ resp.urls = {}

\* C7 witness: count answered for a hostname never submitted, to which a
\* fetched and inserted page links.
C7_Witness ==
  /\ resp.op = "count"
  /\ resp.domain \notin SubmittedHosts
  /\ pc = "loop"
  /\ prevIns.host = host
  /\ \E i \in DOMAIN visited :
        /\ visited[i].out.ok
        /\ \E k \in DOMAIN visited[i].out.anchors :
              UrlParse(visited[i].out.anchors[k]).host = resp.domain

\* A message that is a URL with a host.
Hostful(m) == UrlParse(m).ok /\ UrlParse(m).hasHost

\* C8: the traversals started so far, followed by the URLs with a host still
\* waiting on the channel, are the submitted URLs with a host in submission
\* order; the traversal in progress is that of the last one started and every
\* fetch made belongs to it; a traversal starts only when none is in progress.
C8_InOrder ==
  /\ chan = SubSeq(sent, nrecv + 1, Len(sent))
  /\ started \o SelectSeq(chan, Hostful) = SelectSeq(sent, Hostful)
  /\ Traversing =>
       /\ started # <<>>
       /\ host = UrlParse(started[Len(started)]).host
       /\ \A i \in DOMAIN visited : UrlParse(visited[i].url).host = host

C8_FifoOneAtATime ==
  /\ []C8_InOrder
  /\ [][started' # started =>
          /\ ~Traversing
          /\ Len(started') = Len(started) + 1
          /\ visited' = <<>>]_vars

\* C8 witness: a second URL with a host waits on the channel while the
\* traversal of the first one is fetching.
C8_Witness ==
  /\ Traversing
  /\ Len(started) = 1
  /\ visited # <<>>
  /\ SelectSeq(chan, Hostful) # <<>>
  /\ chan[1] # started[1]

\* The request in progress has made its last fetch.
Processed == pc = "loop" /\ Exhausted(queue, counter + 1)

\* No traversal for hostname h has been started before the one in progress.
FirstFor(h) ==
  \A i \in 1..(Len(started) - 1) : UrlParse(started[i]).host # h

\* The fetches of the request in progress: the seed page with two anchors to
\* one same-host URL and one anchor to another hostname, and no other page
\* with a link.
EndToEnd ==
  /\ visited # <<>>
  /\ LET seed == visited[1].url
         a == visited[1].out.anchors
     IN /\ visited[1].out.ok
        /\ Len(a) = 3
        /\ a[1] = a[2]
        /\ Hostful(a[1]) /\ UrlParse(a[1]).host = host
        /\ AsStr(UrlParse(a[1])) # seed
        /\ Foreign(host, a[3])
        /\ \A i \in 2..Len(visited) :
             IF visited[i].url = seed
               THEN visited[i].out \in {visited[1].out, Failed}
               ELSE ~visited[i].out.ok \/ visited[i].out.anchors = <<>>

\* C9: after such a request on a hostname without prior entries the host's
\* set is exactly the seed and the one same-host link, count 2, and the other
\* hostname, if never crawled, has count 0.
C9_EndToEnd ==
  (Processed /\ FirstFor(host) /\ EndToEnd) =>
    LET seed == visited[1].url
        a == visited[1].out.anchors
        other == UrlParse(a[3]).host
    IN /\ ListOf(store, host) = {seed, AsStr(UrlParse(a[1]))}
       /\ CountOf(store, host) = 2
       /\ FirstFor(other) => CountOf(store, other) = 0 /\ ListOf(store, other) = {}

\* C9 witness: such a request, with the seed and the linked page fetched.
C9_Witness ==
  /\ Processed /\ FirstFor(host) /\ EndToEnd
  /\ \E i \in DOMAIN visited : visited[i].url # visited[1].url /\ visited[i].out.ok

\* C10: only URLs with a host start a traversal; receiving any other message
\* leaves the crawler at its receive with no traversal started, no fetch, and
\* the store untouched.
C10_MalformedDiscarded ==
  /\ [](\A i \in DOMAIN started : started[i].t = "abs")
  /\ [][(nrecv' = nrecv + 1 /\ Head(chan).t # "abs") =>
          /\ pc' = "recv"
          /\ started' = started
          /\ visited' = visited
          /\ queue' = queue
          /\ store' = store
          /\ committed' = committed
          /\ lock' = lock]_vars

\* C10 witness: a relative reference and a URL without a host were received
\* and no traversal was started.
C10_Witness ==
  /\ pc = "recv"
  /\ nrecv = 2
  /\ started = <<>>
  /\ sent[1].t = "rel"
  /\ sent[2].t = "nohost"

\* The fetch appended to the history by this step, when the step is a fetch.
Fetched == Len(visited') = Len(visited) + 1
LastFetch == visited'[Len(visited')]

\* C11: a failed fetch skips only its own frontier entry: the step makes no
\* insert call and leaves the store as it was, the loop goes on with the
\* entries that were underneath, and no URL whose fetch failed is fetched
\* again in the same request.
C11_FailedStep ==
  (Fetched /\ ~LastFetch.out.ok) =>
     /\ store' = store
     /\ committed' = committed
     /\ prevIns' = prevIns
     /\ lock' = lock
     /\ pc' = "loop"
     /\ queue' = SubSeq(queue, 1, Len(queue) - 1)
     /\ host' = host
C11_NotRetried ==
  \A i, j \in DOMAIN visited :
     (i < j /\ ~visited[i].out.ok) => visited[j].url # visited[i].url
C11_FailureSkipsOneEntry == [][C11_FailedStep]_vars /\ []C11_NotRetried

\* C11 witness: the third fetch of a request failed while another URL was
\* waiting on the frontier, and that URL has been fetched since.
C11_Witness ==
  /\ Len(visited) >= 4
  /\ ~visited[3].out.ok
  /\ visited[4].out.ok
  /\ visited[4].url # visited[3].url

\* The positions of listen and of the calls it makes; it has no exit.
ListenPositions == {"recv", "err", "loop", "insert", "drain", "fresh"}

\* C12: the intake loop never terminates. The crawler is always at a position
\* of the loop, it can always take a step unless it waits at the receive, and
\* a receive failure, a discarded message and a finished traversal each put
\* it back at the receive.
C12_InLoop ==
  /\ pc \in ListenPositions
  /\ pc # "recv" => ENABLED CrawlerStep
C12_BackToRecv ==
  /\ (pc = "err" /\ pc' # pc) => pc' = "recv"
  /\ (pc = "recv" /\ nrecv' # nrecv /\ started' = started) => pc' = "recv"
  /\ (Traversing /\ ~Traversing') => pc' = "recv"
C12_IntakeNeverTerminates == []C12_InLoop /\ [][C12_BackToRecv]_vars

\* C12 witness: the receive has just failed, after one message was discarded
\* and the traversal of another was completed.
C12_Witness ==
  /\ pc = "err"
  /\ nrecv = 2
  /\ Len(started) = 1
  /\ CountOf(store, "b.com") > 0

\* C13: a submission is enqueued and answered Accepted at once. While the
\* server runs, the submit handler is enabled for every message in every
\* state of the crawler (up to the number of submissions modelled), and its
\* step appends the message to the channel, answers 202 and leaves the
\* store, its lock and the crawler where they were.
C13_SubmitEnabled ==
  (serving /\ Len(sent) < MaxSubmits) => \A url \in Messages : ENABLED Submit(url)
C13_SubmitStep ==
  sent' # sent =>
     /\ chan' = Append(chan, sent'[Len(sent')])
     /\ resp' = Answer("crawl", 202)
     /\ UNCHANGED <<store, committed, lock, crawlerVars, nrecv, histVars>>
C13_SubmitDoesNotWait == []C13_SubmitEnabled /\ [][C13_SubmitStep]_vars

\* C13 witness: a submission was just accepted while the traversal of an
\* earlier request was inside an insert call, holding the store's lock.
C13_Witness ==
  /\ resp = Answer("crawl", 202)
  /\ pc = "drain"
  /\ lock = "crawler"
  /\ Len(started) = 1
  /\ Len(sent) = 2
  /\ chan = <<sent[2]>>

\* C14: list and count are read-only. A step that answers a list or a count,
\* for any domain and in any state, leaves the store, the channel, the lock
\* and every variable of the crawler unchanged.
C14_QueryStep ==
  (resp'.op \in {"list", "count"} /\ resp' # resp) =>
     UNCHANGED <<store, committed, chan, sent, nrecv, lock, crawlerVars, histVars>>
C14_QueriesReadOnly == [][C14_QueryStep]_vars

\* C14 witness: a query for a domain the store does not hold was answered
\* while a traversal was in progress and a message was waiting in the channel.
C14_Witness ==
  /\ resp.op = "count"
  /\ resp.domain = "c.com"
  /\ pc = "loop"
  /\ Len(queue) >= 2
  /\ store # EmptyDb
  /\ chan # <<>>

\* The URLs fetched so far in the request in progress.
VisitedUrls == {visited[k].url : k \in DOMAIN visited}

\* C15: at every point of a traversal the frontier holds only URLs of the
\* request's host that have not been fetched in the request; a URL already
\* fetched, the seed included, is never on the frontier again.
C15_FrontierUnvisited ==
  \A i \in DOMAIN queue :
     /\ UrlParse(queue[i]).host = host
     /\ queue[i] \notin VisitedUrls

\* What the traversal does keep: the frontier holds only URLs of the
\* request's host, and only the seed can be on it after having been fetched.
FrontierSameHostSeedOnly ==
  \A i \in DOMAIN queue :
     /\ UrlParse(queue[i]).host = host
     /\ queue[i] \in VisitedUrls => queue[i] = visited[1].url

\* C16: the frontier is a stack. Each fetch takes the entry pushed last, the
\* URLs an insert reports go on top of the entries already waiting, in the
\* order reported, and so whenever a fetch takes an entry that was already
\* waiting when an earlier page was fetched, every URL pushed for that page
\* has been fetched in between.
C16_PopsTop ==
  Fetched => /\ LastFetch.url = queue[Len(queue)]
             /\ queue' = SubSeq(queue, 1, Len(queue) - 1)
C16_PushesOnTop ==
  (prevIns' # prevIns \/ (pc \in {"drain", "fresh"} /\ pc' = "loop")) =>
     queue' = queue \o prevIns'.ret
C16_NewBeforeOld ==
  \A i, j \in DOMAIN visited :
     (i < j /\ visited[j].below < visited[i].below) =>
        \A u \in visited[i].pushed : \E k \in (i + 1)..(j - 1) : visited[k].url = u
C16_FrontierLifo ==
  [][C16_PopsTop /\ C16_PushesOnTop]_vars /\ []C16_NewBeforeOld

\* C16 witness: a page was fetched with an entry waiting underneath, two new
\* URLs were pushed for it, both have been fetched, and the entry underneath
\* has been fetched after them.
C16_Witness ==
  \E i, j \in DOMAIN visited :
     /\ i < j
     /\ visited[i].below = 1
     /\ visited[j].below = 0
     /\ Cardinality(visited[i].pushed) = 2
     /\ j = i + 3

\* The seed of the request in progress, as crawl_urls gets it.
Seed == AsStr(UrlParse(started[Len(started)]))

\* C17: a URL that was in the store when the request started is fetched in
\* that request only as its seed; what an earlier request discovered and did
\* not visit is not visited by a later one.
C17_KnownFetchedOnlyAsSeed ==
  \A k \in DOMAIN visited : visited[k].url \in known => visited[k].url = Seed

\* C17 witness: the second request for a host whose first request stopped at
\* the ceiling: the seed, already known, was fetched, nothing was reported as
\* new, and the request is at its end with the known pages not fetched.
C17_Witness ==
  /\ Len(started) = 2
  /\ Cardinality(known) >= MAX_LINKS_CRAWLED_PER_REQUEST
  /\ pc = "loop"
  /\ queue = <<>>
  /\ Len(visited) = 1
  /\ visited[1].out.ok
  /\ visited[1].url \in known
  /\ prevIns.ret = <<>>
  /\ prevIns.cands \ {Seed} # {}

\* The k-th message sent has been received and listen is done with it: it was
\* discarded, or its traversal has returned.
Done(k) == nrecv > k \/ (nrecv = k /\ pc \in {"recv", "err"})

\* The k-th message sent was a URL with a host and crawl_urls was entered for it.
StartedFor(k) ==
  Accepted(sent[k]) =>
     Len(started) >= Cardinality({i \in 1..k : Accepted(sent[i])})

\* C18: with the crawler thread running and every fetch returning, every
\* message sent is eventually received, and if it is a URL with a host its
\* traversal is eventually started and completed, however many messages are
\* waiting in front of it.
\* Being sent and being served are both permanent, so "sent leads to served"
\* is: again and again, the k-th message is not yet sent or is served.
C18_EverySubmissionServed ==
  \A k \in 1..MaxSubmits :
     []<>(Len(sent) < k \/ (Done(k) /\ StartedFor(k)))

\* C18 witness: two URLs with a host were sent, for two different hosts, and
\* the traversal of the second has been started and completed after the first.
C18_Witness ==
  /\ Len(sent) = 2
  /\ Accepted(sent[1]) /\ Accepted(sent[2])
  /\ Len(started) = 2
  /\ Done(2)
  /\ CountOf(store, "a.com") > 0 /\ CountOf(store, "b.com") > 0

====
